---- MODULE Spec2Model ----
(***************************************************************************)
(* Model of src/src/lib.rs (onetagger Apple Music source): the TTML lyrics *)
(* extractor AppleMusic::parse_ttml, run token by token over a token       *)
(* stream, and its caller AutotaggerSource::match_track.                   *)
(***************************************************************************)
EXTENDS Integers, Sequences, FiniteSets, TLC

(***************************************************************************)
(* Option<T>: None is the empty sequence, Some(x) the one-element sequence. *)
(***************************************************************************)
None == <<>>
Some(x) == <<x>>
IsNone(o) == o = <<>>
IsSome(o) == o # <<>>
Unwrap(o) == o[1]

(***************************************************************************)
(* Tokens of xmlparser::Tokenizer (Result<Token, Error> items).            *)
(***************************************************************************)
ElementStart(local) == [kind |-> "ElementStart", local |-> local]
Attribute(local, value) == [kind |-> "Attribute", local |-> local, value |-> value]
ElementEndOpen == [kind |-> "ElementEnd", end |-> "Open", local |-> ""]
ElementEndEmpty == [kind |-> "ElementEnd", end |-> "Empty", local |-> ""]
ElementEndClose(local) == [kind |-> "ElementEnd", end |-> "Close", local |-> local]
Text(text) == [kind |-> "Text", text |-> text]
\* any token of the `_ => continue` arm (comment, declaration, cdata, ...)
Comment == [kind |-> "Comment"]
\* an Err item of the tokenizer
TokenError == [kind |-> "Error"]

(***************************************************************************)
(* Lyrics::parse_lrc_timestamp: the external timestamp parser, a partial   *)
(* map from attribute strings to durations (milliseconds).                 *)
(***************************************************************************)
ValidTimestamps == {"0:01.000", "0:01.500", "0:02.000"}

parse_lrc_timestamp(value) ==
    CASE value = "0:01.000" -> Some(1000)
      [] value = "0:01.500" -> Some(1500)
      [] value = "0:02.000" -> Some(2000)
      [] OTHER -> None

(***************************************************************************)
(* Values built by parse_ttml.                                             *)
(***************************************************************************)
NewLine == [text |-> "", start |-> None, end |-> None, parts |-> <<>>]
NewPart == [text |-> "", start |-> None, end |-> None]

\* Vec<&str>::join(sep)
RECURSIVE Join(_, _)
Join(strs, sep) ==
    IF Len(strs) = 0 THEN ""
    ELSE IF Len(strs) = 1 THEN strs[1]
    ELSE strs[1] \o sep \o Join(Tail(strs), sep)

PartTexts(parts) == [i \in 1..Len(parts) |-> parts[i].text]

\* The locals of one parse_ttml invocation; flow is where control goes after
\* the current token: "loop" (next token), "break", "err_token",
\* "err_timestamp" (the ? operator returns), "panic" (unwrap on None).
NewFrame ==
    [is_body |-> FALSE, is_line_header |-> FALSE, is_synced_line |-> FALSE,
     paragraphs |-> <<>>, paragraph |-> <<>>, line |-> None, part |-> None,
     flow |-> "loop"]

\* (mutant) the paragraph list outlives the invocation
EnterFrame_KeepParagraphs(old) == [NewFrame EXCEPT !.paragraphs = old.paragraphs]

\* the locals a new invocation starts with, whatever the last one left (old)
EnterFrame(old) == NewFrame

(***************************************************************************)
(* The arms of the match over one token (parse_ttml's loop body), each a   *)
(* function of the locals f.                                               *)
(***************************************************************************)
\* (mutant) an open "p" acts only with no Line in progress, an open "span"
\* only in a line header
OnElementStart_TableRows(f, local) ==
    IF local = "body" THEN [f EXCEPT !.is_body = TRUE]
    ELSE IF ~f.is_body THEN f
    ELSE IF local = "p" /\ ~f.is_line_header /\ ~f.is_synced_line
         THEN [f EXCEPT !.line = Some(NewLine),
                        !.is_line_header = TRUE,
                        !.is_synced_line = FALSE]
    ELSE IF local = "span" /\ f.is_line_header
         THEN [f EXCEPT !.part = Some(NewPart),
                        !.is_line_header = FALSE,
                        !.is_synced_line = TRUE]
    ELSE f

\* Token::ElementStart { local, .. }
OnElementStart(f, local) ==
    IF local = "body" THEN [f EXCEPT !.is_body = TRUE]
    ELSE IF ~f.is_body THEN f
    ELSE LET f1 == IF local = "p"
                   THEN [f EXCEPT !.line = Some(NewLine),
                                  !.is_line_header = TRUE,
                                  !.is_synced_line = FALSE]
                   ELSE f
         IN  IF local = "span"
             THEN [f1 EXCEPT !.part = Some(NewPart),
                             !.is_line_header = FALSE,
                             !.is_synced_line = TRUE]
             ELSE f1

\* (mutant) "begin" and "end" stored into each other's field
SetTimestamp_Swapped(f, fld, local, value) ==
    IF IsNone(f[fld]) THEN [f EXCEPT !.flow = "panic"]
    ELSE IF local \notin {"begin", "end"} THEN f
    ELSE IF IsNone(parse_lrc_timestamp(value)) THEN [f EXCEPT !.flow = "err_timestamp"]
    ELSE IF local = "end"
         THEN [f EXCEPT ![fld] = Some([Unwrap(f[fld]) EXCEPT !.start = parse_lrc_timestamp(value)])]
         ELSE [f EXCEPT ![fld] = Some([Unwrap(f[fld]) EXCEPT !.end = parse_lrc_timestamp(value)])]

\* (mutant) a rejected timestamp is skipped instead of returned as an error
SetTimestamp_SkipInvalid(f, fld, local, value) ==
    IF IsNone(f[fld]) THEN [f EXCEPT !.flow = "panic"]
    ELSE IF local \notin {"begin", "end"} THEN f
    ELSE IF IsNone(parse_lrc_timestamp(value)) THEN f
    ELSE IF local = "begin"
         THEN [f EXCEPT ![fld] = Some([Unwrap(f[fld]) EXCEPT !.start = parse_lrc_timestamp(value)])]
         ELSE [f EXCEPT ![fld] = Some([Unwrap(f[fld]) EXCEPT !.end = parse_lrc_timestamp(value)])]

\* match local.as_str() { "begin" => x.start = Some(parse(value)?),
\*                        "end" => x.end = Some(parse(value)?), _ => {} }
\* applied to the value held by field fld ("line" or "part") of f
SetTimestamp(f, fld, local, value) ==
    IF IsNone(f[fld]) THEN [f EXCEPT !.flow = "panic"]
    ELSE IF local \notin {"begin", "end"} THEN f
    ELSE IF IsNone(parse_lrc_timestamp(value)) THEN [f EXCEPT !.flow = "err_timestamp"]
    ELSE IF local = "begin"
         THEN [f EXCEPT ![fld] = Some([Unwrap(f[fld]) EXCEPT !.start = parse_lrc_timestamp(value)])]
         ELSE [f EXCEPT ![fld] = Some([Unwrap(f[fld]) EXCEPT !.end = parse_lrc_timestamp(value)])]

\* Token::Attribute { local, value, .. }
OnAttribute(f, local, value) ==
    LET f1 == IF f.is_line_header THEN SetTimestamp(f, "line", local, value) ELSE f
    IN  IF f1.flow # "loop" THEN f1
        ELSE IF f1.is_synced_line THEN SetTimestamp(f1, "part", local, value)
        ELSE f1

\* (mutant) the part texts joined without the separating space
MergedLine_NoSeparator(line) ==
    IF line.text = "" THEN [line EXCEPT !.text = Join(PartTexts(line.parts), "")]
    ELSE line

\* ElementEnd::Close(_, "p"): the finished line, text merged from the parts
MergedLine(line) ==
    IF line.text = "" THEN [line EXCEPT !.text = Join(PartTexts(line.parts), " ")]
    ELSE line

\* (mutant) a close "p" leaves the flags as they are
CloseP_KeepFlags(f) ==
    IF IsNone(f.line) THEN [f EXCEPT !.flow = "panic"]
    ELSE [f EXCEPT !.line = None,
                   !.paragraph = Append(f.paragraph, MergedLine(Unwrap(f.line)))]

\* ElementEnd::Close(_, "p")
CloseP(f) ==
    IF IsNone(f.line) THEN [f EXCEPT !.flow = "panic"]
    ELSE [f EXCEPT !.line = None,
                   !.is_line_header = FALSE,
                   !.is_synced_line = FALSE,
                   !.paragraph = Append(f.paragraph, MergedLine(Unwrap(f.line)))]

\* (mutant) a close "span" with nothing to close is let through
CloseSpan_Lenient(f) ==
    IF IsNone(f.line) \/ IsNone(f.part) THEN [f EXCEPT !.is_synced_line = FALSE]
    ELSE [f EXCEPT !.is_synced_line = FALSE,
                   !.line = Some([Unwrap(f.line) EXCEPT
                                    !.parts = Append(Unwrap(f.line).parts, Unwrap(f.part))]),
                   !.part = None]

\* (mutant) a close "span" goes back to the line header
CloseSpan_ToLineHeader(f) ==
    IF IsNone(f.line) \/ IsNone(f.part) THEN [f EXCEPT !.flow = "panic"]
    ELSE [f EXCEPT !.is_synced_line = FALSE,
                   !.is_line_header = TRUE,
                   !.line = Some([Unwrap(f.line) EXCEPT
                                    !.parts = Append(Unwrap(f.line).parts, Unwrap(f.part))]),
                   !.part = None]

\* ElementEnd::Close(_, "span")
CloseSpan(f) ==
    IF IsNone(f.line) \/ IsNone(f.part) THEN [f EXCEPT !.flow = "panic"]
    ELSE [f EXCEPT !.is_synced_line = FALSE,
                   !.line = Some([Unwrap(f.line) EXCEPT
                                    !.parts = Append(Unwrap(f.line).parts, Unwrap(f.part))]),
                   !.part = None]

\* (mutant) a close "div" acts only with no Line or Part scope open
CloseDiv_OnlyInBody(f) ==
    IF f.is_line_header \/ f.is_synced_line THEN f
    ELSE [f EXCEPT !.paragraphs = Append(f.paragraphs, f.paragraph),
                   !.paragraph = <<>>]

\* ElementEnd::Close(_, "div")
CloseDiv(f) ==
    [f EXCEPT !.is_line_header = FALSE,
              !.is_synced_line = FALSE,
              !.paragraphs = Append(f.paragraphs, f.paragraph),
              !.paragraph = <<>>]

\* (mutant) the body's close leaves the body instead of leaving the loop
CloseBody_Continue(f) == [f EXCEPT !.is_body = FALSE]

\* ElementEnd::Close(_, "body")
CloseBody(f) == [f EXCEPT !.flow = "break"]

\* Token::ElementEnd { end, .. }
OnElementEnd(f, end, local) ==
    IF end # "Close" THEN f
    ELSE CASE local = "body" -> CloseBody(f)
           [] local = "p" -> CloseP(f)
           [] local = "span" -> CloseSpan(f)
           [] local = "div" -> CloseDiv(f)
           [] OTHER -> f

\* (mutant) text of a line header is dropped
OnText_PartOnly(f, text) ==
    IF f.is_synced_line
    THEN IF IsNone(f.part) THEN [f EXCEPT !.flow = "panic"]
         ELSE [f EXCEPT !.part = Some([Unwrap(f.part) EXCEPT !.text = text])]
    ELSE f

\* (mutant) text is appended to what the Line or Part already has
OnText_Append(f, text) ==
    LET f1 == IF f.is_line_header /\ IsSome(f.line)
              THEN [f EXCEPT !.line = Some([Unwrap(f.line) EXCEPT
                                              !.text = Unwrap(f.line).text \o text])]
              ELSE f
    IN  IF f1.is_synced_line /\ IsSome(f1.part)
        THEN [f1 EXCEPT !.part = Some([Unwrap(f1.part) EXCEPT
                                         !.text = Unwrap(f1.part).text \o text])]
        ELSE f1

\* Token::Text { text }
OnText(f, text) ==
    LET f1 == IF f.is_line_header
              THEN IF IsNone(f.line) THEN [f EXCEPT !.flow = "panic"]
                   ELSE [f EXCEPT !.line = Some([Unwrap(f.line) EXCEPT !.text = text])]
              ELSE f
    IN  IF f1.flow # "loop" THEN f1
        ELSE IF f1.is_synced_line
             THEN IF IsNone(f1.part) THEN [f1 EXCEPT !.flow = "panic"]
                  ELSE [f1 EXCEPT !.part = Some([Unwrap(f1.part) EXCEPT !.text = text])]
             ELSE f1

\* let token = token?; match token { ... }
OnToken(f, token) ==
    CASE token.kind = "Error" -> [f EXCEPT !.flow = "err_token"]
      [] token.kind = "ElementStart" -> OnElementStart(f, token.local)
      [] token.kind = "Attribute" -> OnAttribute(f, token.local, token.value)
      [] token.kind = "ElementEnd" -> OnElementEnd(f, token.end, token.local)
      [] token.kind = "Text" -> OnText(f, token.text)
      [] OTHER -> f

(***************************************************************************)
(* What an invocation hands back: Ok(Lyrics), Err(e), or a panic.          *)
(***************************************************************************)
Ok(paragraphs, language) ==
    [tag |-> "Ok", paragraphs |-> paragraphs, language |-> language, error |-> ""]
Err(e) == [tag |-> "Err", paragraphs |-> <<>>, language |-> "", error |-> e]
Panic == [tag |-> "Panic", paragraphs |-> <<>>, language |-> "", error |-> ""]

\* (mutant) the lines left in the buffer are returned as a last paragraph
Outcome_FlushBuffer(f, language) ==
    CASE f.flow = "panic" -> Panic
      [] f.flow = "err_token" -> Err("tokenizer")
      [] f.flow = "err_timestamp" -> Err("timestamp")
      [] OTHER -> Ok(IF f.paragraph = <<>> THEN f.paragraphs
                     ELSE Append(f.paragraphs, f.paragraph), language)

\* the value returned once the loop is left with the locals f
Outcome(f, language) ==
    CASE f.flow = "panic" -> Panic
      [] f.flow = "err_token" -> Err("tokenizer")
      [] f.flow = "err_timestamp" -> Err("timestamp")
      [] OTHER -> Ok(f.paragraphs, language)

\* the loop over tokens i.. of the stream
RECURSIVE RunFrom(_, _, _)
RunFrom(f, tokens, i) ==
    IF i > Len(tokens) \/ f.flow # "loop" THEN f
    ELSE RunFrom(OnToken(f, tokens[i]), tokens, i + 1)

\* parse_ttml as a function of its two arguments
ParseTtml(tokens, language) == Outcome(RunFrom(NewFrame, tokens, 1), language)

(***************************************************************************)
(* The token streams fed to parse_ttml.  Tokenizable is the shape of what  *)
(* Tokenizer::from(ttml) can yield: attributes and the tag's end follow an *)
(* element start, text and closes occur inside the root element, nothing   *)
(* but comments follows the root's close, an error ends the stream.        *)
(***************************************************************************)
RECURSIVE TokenizerScan(_, _, _, _)
TokenizerScan(s, i, mode, depth) ==
    IF i > Len(s) THEN mode # "tag"
    ELSE LET t == s[i] IN
         CASE t.kind = "Error" -> i = Len(s)
           [] t.kind = "Comment" -> mode # "tag" /\ TokenizerScan(s, i + 1, mode, depth)
           [] t.kind = "ElementStart" ->
                mode \in {"start", "elements"} /\ TokenizerScan(s, i + 1, "tag", depth)
           [] t.kind = "Attribute" -> mode = "tag" /\ TokenizerScan(s, i + 1, "tag", depth)
           [] t.kind = "Text" ->
                /\ mode = "elements"
                /\ (i = 1 \/ s[i - 1].kind # "Text")
                /\ TokenizerScan(s, i + 1, mode, depth)
           [] t.kind = "ElementEnd" /\ t.end = "Open" ->
                mode = "tag" /\ TokenizerScan(s, i + 1, "elements", depth + 1)
           [] t.kind = "ElementEnd" /\ t.end = "Empty" ->
                /\ mode = "tag"
                /\ TokenizerScan(s, i + 1, IF depth = 0 THEN "after" ELSE "elements", depth)
           [] OTHER ->
                /\ mode = "elements"
                /\ TokenizerScan(s, i + 1, IF depth = 1 THEN "after" ELSE "elements", depth - 1)

Tokenizable(s) == TokenizerScan(s, 1, "start", 0)

\* bounds of the generated documents
MaxParts == 2
MaxLines == 2
MaxDivs == 2
\* invocations of parse_ttml on the same arguments
MaxCalls == 2

SeqsUpTo(S, n) == UNION {[1..k -> S] : k \in 0..n}

RECURSIVE Flatten(_)
Flatten(seqs) == IF Len(seqs) = 0 THEN <<>> ELSE Head(seqs) \o Flatten(Tail(seqs))

InsertAt(s, i, u) == SubSeq(s, 1, i) \o u \o SubSeq(s, i + 1, Len(s))

\* <name attrs...>
Tag(name, attrs) == <<ElementStart(name)>> \o attrs \o <<ElementEndOpen>>

\* the attribute lists a "p" and a "span" are generated with
LineAttrs ==
    { <<>>,
      <<Attribute("begin", "0:01.000"), Attribute("end", "0:02.000")>>,
      <<Attribute("key", "L1"), Attribute("end", "0:01.500")>> }
PartAttrs ==
    { <<>>, <<Attribute("begin", "0:01.000"), Attribute("end", "0:01.500")>> }
PartTextRuns == { <<>>, <<Text("Hello")>>, <<Text("world")>> }
LineTextRuns == { <<>>, <<Text("Plain line text")>> }

\* <span attrs>text</span>
SpanElement(attrs, text) == Tag("span", attrs) \o text \o <<ElementEndClose("span")>>
SpanElements == { SpanElement(a, t) : a \in PartAttrs, t \in PartTextRuns }

\* <p attrs>text<span/>...</p>
PElement(attrs, text, spans) ==
    Tag("p", attrs) \o text \o Flatten(spans) \o <<ElementEndClose("p")>>
PElements ==
    { PElement(a, t, sp) : a \in LineAttrs, t \in LineTextRuns,
                           sp \in SeqsUpTo(SpanElements, MaxParts) }

\* <div begin=..>lines</div>
DivElement(lines) ==
    Tag("div", <<Attribute("begin", "0:01.500")>>) \o Flatten(lines)
        \o <<ElementEndClose("div")>>

\* <tt><head></head><body dur=..>divs</body></tt>
Document(divs) ==
    Tag("tt", <<>>) \o Tag("head", <<>>) \o <<ElementEndClose("head")>>
        \o Tag("body", <<Attribute("dur", "0:02.000")>>) \o Flatten(divs)
        \o <<ElementEndClose("body"), ElementEndClose("tt")>>

\* one div holding one line, every generated line
LineDocuments == { Document(<<DivElement(<<p>>)>>) : p \in PElements }

\* up to MaxDivs divs of up to MaxLines lines, the lines of a div all plain
\* or all of one span
PlainP == PElement(<<>>, <<Text("Plain line text")>>, <<>>)
SyncedP ==
    PElement(<<Attribute("begin", "0:01.000"), Attribute("end", "0:02.000")>>, <<>>,
             <<SpanElement(<<Attribute("begin", "0:01.000")>>, <<Text("Hello")>>)>>)
GroupDocuments ==
    { Document(d) :
        d \in SeqsUpTo({ DivElement([i \in 1..n |-> l]) : n \in 0..MaxLines,
                                                          l \in {PlainP, SyncedP} },
                       MaxDivs) }

\* the document of two spans of the scenario
HelloWorldP ==
    PElement(<<Attribute("begin", "0:01.000"), Attribute("end", "0:02.000")>>, <<>>,
             << SpanElement(<<Attribute("begin", "0:01.000"), Attribute("end", "0:01.500")>>,
                            <<Text("Hello")>>),
                SpanElement(<<Attribute("begin", "0:01.500"), Attribute("end", "0:02.000")>>,
                            <<Text("world")>>) >>)

\* the documents that are disturbed by one more piece of markup
BaseDocuments ==
    { Document(<<DivElement(<<HelloWorldP>>)>>),
      Document(<<DivElement(<<PlainP>>)>>),
      Document(<<DivElement(<<SyncedP>>), DivElement(<<PlainP>>)>>) }

Names == {"body", "div", "p", "span", "br"}
Markup ==
    { Tag(n, <<>>) : n \in Names }
    \cup { <<ElementStart(n), ElementEndEmpty>> : n \in {"p", "span", "br"} }
    \cup { <<ElementStart("br"), Attribute(a, v), ElementEndEmpty>> :
              a \in {"begin", "end"}, v \in {"0:01.500", "12x"} }
    \cup { <<ElementEndClose(n)>> : n \in Names }
    \cup { Tag("br", <<>>) \o <<ElementEndClose(n)>> : n \in Names }
    \cup { <<Attribute(a, v)>> : a \in {"begin", "end", "key"}, v \in {"0:01.500", "12x"} }
    \cup { <<Text("la")>>, <<Comment>>, <<Comment, Text("la")>> }

DisturbedDocuments ==
    UNION { { InsertAt(d, i, m) : i \in 0..Len(d), m \in Markup } : d \in BaseDocuments }

\* the input ends, or the tokenizer fails, part way through a document
CutDocuments ==
    UNION { { SubSeq(d, 1, i) \o e : i \in 0..Len(d), e \in {<<>>, <<TokenError>>} } :
            d \in BaseDocuments }

\* a line with fewer elements around it than a document has
Fragments ==
    UNION { { l,
              Tag("body", <<>>) \o l \o <<ElementEndClose("body")>>,
              Tag("div", <<>>) \o l \o <<ElementEndClose("div")>>,
              Tag("body", <<>>) \o Tag("div", <<>>) \o l \o <<ElementEndClose("div")>>,
              Tag("tt", <<>>) \o l \o Tag("body", <<>>) \o <<ElementEndClose("body")>> } :
            l \in {PlainP, HelloWorldP} }

Streams ==
    { s \in LineDocuments \cup GroupDocuments \cup DisturbedDocuments \cup CutDocuments
            \cup Fragments :
        Tokenizable(s) }

Languages == {"en_GB", "en"}


(***************************************************************************)
(* parse_ttml, one token per step.                                         *)
(***************************************************************************)
VARIABLES
    ttml,            \* the tokens of the ttml argument
    language,        \* the language argument
    pos,             \* tokens taken from the tokenizer so far
    is_body, is_line_header, is_synced_line,
    paragraphs, paragraph, line, part,
    pc,              \* "loop" inside the for loop, "done" once the call is over
    result,          \* None while running, then Some(Ok | Err | Panic)
    calls,           \* invocations started on these arguments
    prev,            \* the result of the invocation before this one
    access_token,    \* AppleMusic.access_token, shared by the clones
    catalog,         \* AppleMusic.catalog, shared by the clones
    config,          \* TaggerConfig: synced_lyrics, unsynced_lyrics
    mt_pc,           \* where match_track is: idle, matching, lyrics, returned
    matched,         \* what MatchingUtils::match_track gave: (acc, track)
    lyrics_result,   \* what self.lyrics(..) gave in this match_track call
    lyrics_calls,    \* calls of self.lyrics(..) so far
    ret,             \* what match_track returned
    files,           \* match_track calls started
    apple_music,     \* AppleMusicBuilder.apple_music: None or Some(instance)
    storages,        \* per AppleMusic::new, the token/catalog storage it made
    sources,         \* the sources get_source returned (their storage)
    fetch_calls,     \* fetch_token calls made so far
    gs_calls,        \* get_source calls made so far
    gs_ret,          \* how the last get_source call ended
    last_get         \* how the last get on a returned source ended

parseVars == <<ttml, pos, is_body, is_line_header, is_synced_line,
               paragraphs, paragraph, line, part, pc, result, calls, prev>>
matchVars == <<access_token, catalog, config, mt_pc, matched, lyrics_result,
               lyrics_calls, ret, files>>
builderVars == <<apple_music, storages, sources, fetch_calls, gs_calls, gs_ret, last_get>>
vars == <<language, parseVars, matchVars, builderVars>>

Locals ==
    [is_body |-> is_body, is_line_header |-> is_line_header,
     is_synced_line |-> is_synced_line, paragraphs |-> paragraphs,
     paragraph |-> paragraph, line |-> line, part |-> part, flow |-> "loop"]

\* (mutant) a token that changes nothing is not consumed
Commit_Reread(f) ==
    /\ is_body' = f.is_body
    /\ is_line_header' = f.is_line_header
    /\ is_synced_line' = f.is_synced_line
    /\ paragraphs' = f.paragraphs
    /\ paragraph' = f.paragraph
    /\ line' = f.line
    /\ part' = f.part
    /\ pos' = IF f = Locals THEN pos ELSE pos + 1
    /\ pc' = IF f.flow = "loop" THEN "loop" ELSE "done"
    /\ result' = IF f.flow = "loop" THEN None ELSE Some(Outcome(f, language))
    /\ UNCHANGED <<ttml, language, calls, prev, matchVars, builderVars>>

\* the locals as left by one loop iteration; the call is over unless the
\* iteration falls through to the next token
Commit(f) ==
    /\ is_body' = f.is_body
    /\ is_line_header' = f.is_line_header
    /\ is_synced_line' = f.is_synced_line
    /\ paragraphs' = f.paragraphs
    /\ paragraph' = f.paragraph
    /\ line' = f.line
    /\ part' = f.part
    /\ pos' = pos + 1
    /\ pc' = IF f.flow = "loop" THEN "loop" ELSE "done"
    /\ result' = IF f.flow = "loop" THEN None ELSE Some(Outcome(f, language))
    /\ UNCHANGED <<ttml, language, calls, prev, matchVars, builderVars>>

\* no match_track call is under way, nothing is cached
MatchTrackIdle ==
    /\ access_token = None
    /\ catalog = None
    /\ config = [synced_lyrics |-> FALSE, unsynced_lyrics |-> FALSE]
    /\ mt_pc = "idle"
    /\ matched = None
    /\ lyrics_result = None
    /\ lyrics_calls = 0
    /\ ret = None
    /\ files = 0

\* AppleMusicBuilder::new: no instance; nothing made or returned yet
BuilderIdle ==
    /\ apple_music = None
    /\ storages = <<>>
    /\ sources = <<>>
    /\ fetch_calls = 0
    /\ gs_calls = 0
    /\ gs_ret = None
    /\ last_get = None

Init ==
    /\ ttml \in Streams
    /\ language \in Languages
    /\ pos = 0
    /\ is_body = NewFrame.is_body
    /\ is_line_header = NewFrame.is_line_header
    /\ is_synced_line = NewFrame.is_synced_line
    /\ paragraphs = NewFrame.paragraphs
    /\ paragraph = NewFrame.paragraph
    /\ line = NewFrame.line
    /\ part = NewFrame.part
    /\ pc = "loop"
    /\ result = None
    /\ calls = 1
    /\ prev = None
    /\ MatchTrackIdle
    /\ BuilderIdle

NextToken(kind) ==
    /\ pc = "loop"
    /\ pos < Len(ttml)
    /\ ttml[pos + 1].kind = kind

TokenizerError ==
    /\ NextToken("Error")
    /\ Commit(OnToken(Locals, ttml[pos + 1]))

ElementStartToken ==
    /\ NextToken("ElementStart")
    /\ Commit(OnElementStart(Locals, ttml[pos + 1].local))

AttributeToken ==
    /\ NextToken("Attribute")
    /\ Commit(OnAttribute(Locals, ttml[pos + 1].local, ttml[pos + 1].value))

ElementEndToken ==
    /\ NextToken("ElementEnd")
    /\ Commit(OnElementEnd(Locals, ttml[pos + 1].end, ttml[pos + 1].local))

TextToken ==
    /\ NextToken("Text")
    /\ Commit(OnText(Locals, ttml[pos + 1].text))

OtherToken ==
    /\ NextToken("Comment")
    /\ Commit(Locals)

\* the tokenizer is exhausted: Ok(Lyrics { paragraphs, language })
EndOfStream ==
    /\ pc = "loop"
    /\ pos = Len(ttml)
    /\ pc' = "done"
    /\ result' = Some(Outcome(Locals, language))
    /\ UNCHANGED <<ttml, language, pos, is_body, is_line_header, is_synced_line,
                   paragraphs, paragraph, line, part, calls, prev, matchVars,
                   builderVars>>

\* parse_ttml is called again on the same arguments
Reinvoke ==
    /\ pc = "done"
    /\ calls < MaxCalls
    /\ calls' = calls + 1
    /\ prev' = result
    /\ pos' = 0
    /\ is_body' = EnterFrame(Locals).is_body
    /\ is_line_header' = EnterFrame(Locals).is_line_header
    /\ is_synced_line' = EnterFrame(Locals).is_synced_line
    /\ paragraphs' = EnterFrame(Locals).paragraphs
    /\ paragraph' = EnterFrame(Locals).paragraph
    /\ line' = EnterFrame(Locals).line
    /\ part' = EnterFrame(Locals).part
    /\ pc' = "loop"
    /\ result' = None
    /\ UNCHANGED <<ttml, language, matchVars, builderVars>>

Next ==
    \/ TokenizerError
    \/ ElementStartToken
    \/ AttributeToken
    \/ ElementEndToken
    \/ TextToken
    \/ OtherToken
    \/ EndOfStream
    \/ Reinvoke

Spec == Init /\ [][Next]_vars

\* the for loop and its caller run on: a step that can be taken is taken
LiveSpec == Spec /\ WF_vars(Next)

(***************************************************************************)
(* AppleMusic::fetch_token, get, lyrics and AutotaggerSource::match_track. *)
(* What the servers answer is chosen by the environment.                   *)
(***************************************************************************)
\* match_track calls modelled
MaxFiles == 2

Cache == [access_token |-> access_token, catalog |-> catalog]

\* how fetch_token ends: an error before the token is stored, an error
\* after it (account request, no subscription, no storefront), or Ok
FetchOutcomes == {"fail_before_token", "fail_after_token", "ok"}

FetchToken(c, fetch) ==
    CASE fetch = "fail_before_token" -> [cache |-> c, tag |-> "Err"]
      [] fetch = "fail_after_token" ->
            [cache |-> [c EXCEPT !.access_token = Some("eyJh")], tag |-> "Err"]
      [] OTHER ->
            [cache |-> [access_token |-> Some("eyJh"), catalog |-> Some("gb")],
             tag |-> "Ok"]

\* get: the cache it leaves and Ok(response) | Err | Panic
Get(c, fetch, response) ==
    LET ft == IF IsNone(c.access_token) THEN FetchToken(c, fetch)
              ELSE [cache |-> c, tag |-> "Ok"]
    IN  IF ft.tag = "Err" THEN [cache |-> ft.cache, tag |-> "Err", error |-> "fetch_token"]
        ELSE IF IsNone(ft.cache.access_token) \/ IsNone(ft.cache.catalog)
             THEN [cache |-> ft.cache, tag |-> "Panic", error |-> ""]
        ELSE IF response.kind = "err"
             THEN [cache |-> ft.cache, tag |-> "Err", error |-> "request"]
        ELSE [cache |-> ft.cache, tag |-> "Ok", error |-> ""]

\* the ttml strings a lyrics response carries: whole documents, documents
\* cut short, fragments, and documents with a timestamp that does not parse
TtmlStrings ==
    { s \in BaseDocuments \cup CutDocuments \cup Fragments
            \cup UNION { { InsertAt(d, i, <<ElementStart("br"), Attribute(a, "12x"),
                                            ElementEndEmpty>>) :
                               i \in 0..Len(d), a \in {"begin", "end"} } :
                           d \in BaseDocuments } :
        Tokenizable(s) }

\* what the lyrics endpoint answers: a failed request, JSON without the
\* ttml string, or a ttml string (its tokens)
LyricsResponses ==
    {[kind |-> "err", tokens |-> <<>>], [kind |-> "missing_ttml", tokens |-> <<>>]}
        \cup {[kind |-> "ttml", tokens |-> t] : t \in TtmlStrings}

\* lyrics: the cache it leaves and the Result it returns (or the panic)
Lyrics(c, lang, fetch, response) ==
    LET g == Get(c, fetch, response) IN
    [cache |-> g.cache,
     result |-> CASE g.tag = "Panic" -> Panic
                  [] g.tag = "Err" -> Err(g.error)
                  [] response.kind = "missing_ttml" -> Err("Missing TTML")
                  [] OTHER -> ParseTtml(response.tokens, lang)]

\* what match_track returns
MtOk(m) == [tag |-> "Ok", value |-> m, error |-> ""]
MtErr(e) == [tag |-> "Err", value |-> None, error |-> e]
MtPanic == [tag |-> "Panic", value |-> None, error |-> ""]

\* what MatchingUtils::match_track can give for the tracks of a search
Matches ==
    {None} \cup {Some([acc |-> a, track |-> [track_id |-> Some(id), lyrics |-> None]]) :
                    a \in {80, 100}, id \in {"1440857781", "1440857786"}}

\* (mutant) a failed lyrics call fails the match
AfterLyrics_Propagate(m, r) ==
    CASE r.tag = "Ok" ->
            MtOk(Some([m EXCEPT !.track.lyrics =
                         Some([paragraphs |-> r.paragraphs, language |-> r.language])]))
      [] r.tag = "Err" -> MtErr(r.error)
      [] OTHER -> MtPanic

\* match self.lyrics(..) { Ok(lyrics) => track.lyrics = Some(lyrics),
\*                         Err(e) => warn!(..) }; return Ok(Some((acc, track)))
AfterLyrics(m, r) ==
    CASE r.tag = "Ok" ->
            MtOk(Some([m EXCEPT !.track.lyrics =
                         Some([paragraphs |-> r.paragraphs, language |-> r.language])]))
      [] r.tag = "Err" -> MtOk(Some(m))
      [] OTHER -> MtPanic

InitMatch ==
    /\ language = "en_GB"
    /\ ttml = <<>>
    /\ pos = 0
    /\ is_body = NewFrame.is_body
    /\ is_line_header = NewFrame.is_line_header
    /\ is_synced_line = NewFrame.is_synced_line
    /\ paragraphs = NewFrame.paragraphs
    /\ paragraph = NewFrame.paragraph
    /\ line = NewFrame.line
    /\ part = NewFrame.part
    /\ pc = "idle"
    /\ result = None
    /\ calls = 0
    /\ prev = None
    /\ access_token = None
    /\ catalog = None
    /\ config \in [synced_lyrics : BOOLEAN, unsynced_lyrics : BOOLEAN]
    /\ mt_pc = "idle"
    /\ matched = None
    /\ lyrics_result = None
    /\ lyrics_calls = 0
    /\ ret = None
    /\ files = 0
    /\ BuilderIdle

\* match_track up to the search: info.artist()?, info.title()?, self.search(..)?
MatchTrackSearch ==
    /\ mt_pc \in {"idle", "returned"}
    /\ files < MaxFiles
    /\ files' = files + 1
    /\ matched' = None
    /\ lyrics_result' = None
    /\ \E info_ok \in BOOLEAN, fetch \in FetchOutcomes,
          response \in {[kind |-> "err"], [kind |-> "results"]} :
          LET g == Get(Cache, fetch, response) IN
          IF ~info_ok
          THEN /\ ret' = Some(MtErr("tag"))
               /\ mt_pc' = "returned"
               /\ UNCHANGED <<access_token, catalog>>
          ELSE /\ access_token' = g.cache.access_token
               /\ catalog' = g.cache.catalog
               /\ mt_pc' = IF g.tag = "Ok" THEN "matching" ELSE "returned"
               /\ ret' = CASE g.tag = "Ok" -> None
                           [] g.tag = "Err" -> Some(MtErr(g.error))
                           [] OTHER -> Some(MtPanic)
    /\ UNCHANGED <<language, parseVars, config, lyrics_calls, builderVars>>

\* MatchingUtils::match_track over the tracks found; without a match, or
\* with no lyrics wanted, match_track returns here
MatchTrackMatch ==
    /\ mt_pc = "matching"
    /\ \E m \in Matches :
          /\ matched' = m
          /\ mt_pc' = IF IsSome(m) /\ (config.synced_lyrics \/ config.unsynced_lyrics)
                      THEN "lyrics" ELSE "returned"
          /\ ret' = IF IsNone(m) THEN Some(MtOk(None))
                    ELSE IF config.synced_lyrics \/ config.unsynced_lyrics THEN None
                    ELSE Some(MtOk(m))
    /\ UNCHANGED <<language, parseVars, access_token, catalog, config,
                   lyrics_result, lyrics_calls, files, builderVars>>

\* self.lyrics(track_id) and the return of the match
MatchTrackLyrics ==
    /\ mt_pc = "lyrics"
    /\ \E fetch \in FetchOutcomes, response \in LyricsResponses :
          LET l == Lyrics(Cache, language, fetch, response) IN
          /\ access_token' = l.cache.access_token
          /\ catalog' = l.cache.catalog
          /\ lyrics_result' = Some(l.result)
          /\ ret' = Some(AfterLyrics(Unwrap(matched), l.result))
    /\ lyrics_calls' = lyrics_calls + 1
    /\ mt_pc' = "returned"
    /\ UNCHANGED <<language, parseVars, config, matched, files, builderVars>>

NextMatch ==
    \/ MatchTrackSearch
    \/ MatchTrackMatch
    \/ MatchTrackLyrics

SpecMatch == InitMatch /\ [][NextMatch]_vars


(***************************************************************************)
(* AppleMusicBuilder::get_source and the use of the sources it returns.    *)
(***************************************************************************)
\* get_source calls modelled
MaxGetSource == 4

\* AppleMusic::new: storage with neither token nor catalog
NewStorage == [access_token |-> None, catalog |-> None]

\* what config.custom holds for "apple_music": nothing (or not an
\* AppleMusicConfig), a media_user_token that is no header value, a usable one
CustomConfigs == {"missing", "bad_header", "ok"}

InitBuilder ==
    /\ language = "en_GB"
    /\ ttml = <<>>
    /\ pos = 0
    /\ is_body = NewFrame.is_body
    /\ is_line_header = NewFrame.is_line_header
    /\ is_synced_line = NewFrame.is_synced_line
    /\ paragraphs = NewFrame.paragraphs
    /\ paragraph = NewFrame.paragraph
    /\ line = NewFrame.line
    /\ part = NewFrame.part
    /\ pc = "idle"
    /\ result = None
    /\ calls = 0
    /\ prev = None
    /\ MatchTrackIdle
    /\ BuilderIdle

\* (mutant) the instance is kept before the token is fetched
GetSourceNew_KeepFirst(custom, fetch) ==
    LET ft == FetchToken(NewStorage, fetch) IN
    CASE custom = "missing" ->
            /\ gs_ret' = Some("Err_config")
            /\ UNCHANGED <<apple_music, storages, sources, fetch_calls>>
      [] custom = "bad_header" ->
            /\ gs_ret' = Some("Panic")
            /\ UNCHANGED <<apple_music, storages, sources, fetch_calls>>
      [] OTHER ->
            /\ storages' = Append(storages, ft.cache)
            /\ fetch_calls' = fetch_calls + 1
            /\ apple_music' = Some(Len(storages) + 1)
            /\ IF ft.tag = "Ok"
               THEN /\ sources' = Append(sources, Len(storages) + 1)
                    /\ gs_ret' = Some("Ok")
               ELSE /\ gs_ret' = Some("Err_fetch")
                    /\ UNCHANGED sources

\* get_source with no instance yet: the config, AppleMusic::new,
\* am.fetch_token()?, self.apple_music = Some(am.clone())
GetSourceNew(custom, fetch) ==
    LET ft == FetchToken(NewStorage, fetch) IN
    CASE custom = "missing" ->
            /\ gs_ret' = Some("Err_config")
            /\ UNCHANGED <<apple_music, storages, sources, fetch_calls>>
      [] custom = "bad_header" ->
            /\ gs_ret' = Some("Panic")
            /\ UNCHANGED <<apple_music, storages, sources, fetch_calls>>
      [] OTHER ->
            /\ storages' = Append(storages, ft.cache)
            /\ fetch_calls' = fetch_calls + 1
            /\ IF ft.tag = "Ok"
               THEN /\ apple_music' = Some(Len(storages) + 1)
                    /\ sources' = Append(sources, Len(storages) + 1)
                    /\ gs_ret' = Some("Ok")
               ELSE /\ gs_ret' = Some("Err_fetch")
                    /\ UNCHANGED <<apple_music, sources>>

\* AppleMusicBuilder::get_source
GetSource ==
    /\ gs_calls < MaxGetSource
    /\ gs_calls' = gs_calls + 1
    /\ IF IsSome(apple_music)
       THEN /\ sources' = Append(sources, Unwrap(apple_music))
            /\ gs_ret' = Some("Ok")
            /\ UNCHANGED <<apple_music, storages, fetch_calls>>
       ELSE \E custom \in CustomConfigs, fetch \in FetchOutcomes :
               GetSourceNew(custom, fetch)
    /\ UNCHANGED <<language, parseVars, matchVars, last_get>>

\* a get (search, lyrics) on one of the returned sources
SourceGet ==
    /\ \E k \in 1..Len(sources), fetch \in FetchOutcomes,
          response \in {[kind |-> "err"], [kind |-> "results"]} :
          LET id == sources[k]
              g == Get(storages[id], fetch, response)
          IN  /\ storages' = [storages EXCEPT ![id] = g.cache]
              /\ fetch_calls' =
                    fetch_calls + (IF IsNone(storages[id].access_token) THEN 1 ELSE 0)
              /\ last_get' = Some(g.tag)
    /\ UNCHANGED <<language, parseVars, matchVars, apple_music, sources, gs_calls, gs_ret>>

NextBuilder ==
    \/ GetSource
    \/ SourceGet

SpecBuilder == InitBuilder /\ [][NextBuilder]_vars

(***************************************************************************)
(* Reading the token stream: the elements the claims speak of.             *)
(***************************************************************************)
Min(S) == CHOOSE x \in S : \A y \in S : x <= y
Max(S) == CHOOSE x \in S : \A y \in S : x >= y

IsStart(t, n) == t.kind = "ElementStart" /\ t.local = n
IsClose(t, n) == t.kind = "ElementEnd" /\ t.end = "Close" /\ t.local = n
IsTimeAttr(t) == t.kind = "Attribute" /\ t.local \in {"begin", "end"}

Starts(s, n) == {i \in 1..Len(s) : IsStart(s[i], n)}
Closes(s, n) == {i \in 1..Len(s) : IsClose(s[i], n)}

\* the call is over and handed back a document
Returned == pc = "done" /\ IsSome(result) /\ Unwrap(result).tag = "Ok"
Document_ == Unwrap(result).paragraphs
\* every line of a list of paragraphs, in order
AllLines(pars) == Flatten(pars)

\* the stream holds exactly one <p ...> ... </p>; its tag ends at PTagEnd and
\* its content lies strictly between PTagEnd and PClose
HasOneP(s) ==
    /\ Cardinality(Starts(s, "p")) = 1
    /\ \E e \in 1..Len(s) : e > Min(Starts(s, "p")) /\ s[e].kind = "ElementEnd"
    /\ \E c \in Closes(s, "p") : c > Min(Starts(s, "p"))
POpen(s) == Min(Starts(s, "p"))
PTagEnd(s) == Min({e \in POpen(s) + 1 .. Len(s) : s[e].kind = "ElementEnd"})
PClose(s) == Min({c \in Closes(s, "p") : c > POpen(s)})
PContent(s) == SubSeq(s, PTagEnd(s) + 1, PClose(s) - 1)
POwnAttrs(s) == SubSeq(s, POpen(s) + 1, PTagEnd(s) - 1)

\* the "p" lies inside the body: the body opens before it and does not close
\* before the "p" has closed
PInBody(s) ==
    /\ \E b \in Starts(s, "body") : b < POpen(s)
    /\ \A b \in Closes(s, "body") : b > PClose(s)

\* ... and a close "div" after the "p" is reached before the body closes
PInDivInBody(s) ==
    /\ \E b \in Starts(s, "body") : b < POpen(s)
    /\ \E d \in Closes(s, "div") :
          d > PClose(s) /\ \A b \in Closes(s, "body") : b > d

\* content read as <span attrs>text</span> ... <span attrs>text</span>, each
\* with one nonempty text run: <<TRUE, the texts>>, or <<FALSE, _>> when the
\* content is anything else
RECURSIVE SpanChildren(_, _, _)
SpanChildren(c, i, texts) ==
    IF i > Len(c) THEN <<TRUE, texts>>
    ELSE IF ~IsStart(c[i], "span") THEN <<FALSE, texts>>
    ELSE LET after == {j \in i + 1 .. Len(c) : c[j].kind # "Attribute"} IN
         IF after = {} THEN <<FALSE, texts>>
         ELSE LET e == Min(after) IN
              IF /\ c[e] = ElementEndOpen
                 /\ e + 2 <= Len(c)
                 /\ c[e + 1].kind = "Text"
                 /\ c[e + 1].text # ""
                 /\ c[e + 2] = ElementEndClose("span")
              THEN SpanChildren(c, e + 3, Append(texts, c[e + 1].text))
              ELSE <<FALSE, texts>>

\* one "p", no direct text, N >= 1 "span" children of one nonempty text each
SyncedLineInput(s) ==
    /\ HasOneP(s)
    /\ s[PTagEnd(s)] = ElementEndOpen
    /\ SpanChildren(PContent(s), 1, <<>>)[1]
    /\ Len(SpanChildren(PContent(s), 1, <<>>)[2]) >= 1
SpanTexts(s) == SpanChildren(PContent(s), 1, <<>>)[2]

PlainLineInput(s) ==
    /\ HasOneP(s)
    /\ s[PTagEnd(s)] = ElementEndOpen
    /\ Len(PContent(s)) = 1
    /\ PContent(s)[1].kind = "Text"
PlainText(s) == PContent(s)[1].text
PHasTimeAttrs(s) == \E i \in 1..Len(POwnAttrs(s)) : IsTimeAttr(POwnAttrs(s)[i])

\* the one Line of the document is the plain line of the stream's "p"
IsThePlainLine(s, pars) ==
    /\ Len(AllLines(pars)) = 1
    /\ AllLines(pars)[1].text = PlainText(s)
    /\ AllLines(pars)[1].parts = <<>>
    /\ (~PHasTimeAttrs(s) =>
            AllLines(pars)[1].start = None /\ AllLines(pars)[1].end = None)

\* C2 as stated, on the inputs whose "p" lies inside the body: for every
\* input holding one "p" with a direct text run and no "span" children, the
\* returned document holds exactly one Line, its text the run, no timestamps
\* unless the "p" has begin/end, no parts.
C2_AsStated ==
    (Returned /\ PlainLineInput(ttml) /\ PInBody(ttml)) =>
        IsThePlainLine(ttml, Document_)

\* C2 amended: the same, for inputs whose "p" lies inside the body and is
\* followed by a close "div" that is reached before any close "body".
C2_PlainLineInDiv ==
    (Returned /\ PlainLineInput(ttml) /\ PInDivInBody(ttml)) =>
        IsThePlainLine(ttml, Document_)

\* the plain line of the scenario went into the returned document
C2_Witness ==
    /\ Returned
    /\ PlainLineInput(ttml)
    /\ PInDivInBody(ttml)
    /\ ~PHasTimeAttrs(ttml)
    /\ AllLines(Document_) =
         <<[text |-> "Plain line text", start |-> None, end |-> None, parts |-> <<>>]>>

(***************************************************************************)
(* Which tokens a Line or Part of the document comes from.  In a returned  *)
(* document the k-th line overall was pushed by the k-th close "p", and    *)
(* its parts by the close "span" tokens since the open "p" before it.      *)
(***************************************************************************)
RECURSIVE Sorted(_)
Sorted(S) == IF S = {} THEN <<>> ELSE <<Min(S)>> \o Sorted(S \ {Min(S)})

ClosePs(s, n) == Sorted({j \in 1..n : IsClose(s[j], "p")})
OwnP(s, j) == Max({i \in Starts(s, "p") : i < j})
PartCloses(s, j) == Sorted({c \in OwnP(s, j) + 1 .. j - 1 : IsClose(s[c], "span")})
OwnSpan(s, c) == Max({i \in Starts(s, "span") : i < c})
\* the end of the tag that starts at i
TagEnd(s, i) == Min({e \in i + 1 .. Len(s) : s[e].kind = "ElementEnd"})
\* where the attributes seen after the open "p" at i stop counting for its line
HeaderEnd(s, i) ==
    Min({m \in i + 1 .. Len(s) :
            IsStart(s[m], "span") \/ IsClose(s[m], "p") \/ IsClose(s[m], "div")})
\* ... and after the open "span" at i for its part
PartEnd(s, i) ==
    Min({m \in i + 1 .. Len(s) :
            \/ IsStart(s[m], "p") \/ IsClose(s[m], "span")
            \/ IsClose(s[m], "p") \/ IsClose(s[m], "div")})
\* the timestamp of the last attribute called name strictly between i and m
LastTimestamp(s, i, m, name) ==
    LET at == {a \in i + 1 .. m - 1 : s[a].kind = "Attribute" /\ s[a].local = name}
    IN  IF at = {} THEN None ELSE parse_lrc_timestamp(s[Max(at)].value)

\* every Line and Part of pars has the timestamps of the attributes up to
\* LineEnd(_, own "p") and PartEnd_(_, own "span")
TimestampsFrom(s, n, pars, LineEnd(_, _), PartEnd_(_, _)) ==
    /\ Len(AllLines(pars)) <= Len(ClosePs(s, n))
    /\ \A k \in 1..Len(AllLines(pars)) :
          LET l == AllLines(pars)[k]
              j == ClosePs(s, n)[k]
              i == OwnP(s, j)
              cs == PartCloses(s, j)
          IN  /\ l.start = LastTimestamp(s, i, LineEnd(s, i), "begin")
              /\ l.end = LastTimestamp(s, i, LineEnd(s, i), "end")
              /\ Len(l.parts) = Len(cs)
              /\ \A m \in 1..Len(cs) :
                    LET sp == OwnSpan(s, cs[m]) IN
                    /\ l.parts[m].start = LastTimestamp(s, sp, PartEnd_(s, sp), "begin")
                    /\ l.parts[m].end = LastTimestamp(s, sp, PartEnd_(s, sp), "end")

\* C3 as stated: in every returned document each Line's start/end are the
\* parser's results for the begin/end attributes of its own "p" (absent if
\* it has none), each Part's those of its own "span"; attributes of other
\* elements never change them.
C3_AsStated ==
    Returned => TimestampsFrom(ttml, pos, Document_, TagEnd, TagEnd)

\* C3 amended: each Line's start/end are the parser's results for the last
\* begin/end attribute between its open "p" and the next open "span", close
\* "p" or close "div" (absent if none), each Part's for the last between
\* its open "span" and the next open "p", close "span", close "p" or close
\* "div": the attributes of its own element and of any element opened inside
\* that range.  Attributes anywhere else never change them.
C3_TimestampsOfScope ==
    Returned => TimestampsFrom(ttml, pos, Document_, HeaderEnd, PartEnd)

\* the scenario's line, with div and body attributes around it, and a line
\* that took its start from a <br begin=.../> inside the "p"
C3_Witness ==
    /\ Returned
    /\ Len(AllLines(Document_)) = 1
    /\ \E a \in 1..Len(ttml) :
          /\ IsStart(ttml[a], "br")
          /\ ttml[a + 1] = Attribute("begin", "0:01.500")
          /\ a > OwnP(ttml, ClosePs(ttml, pos)[1])
          /\ a < HeaderEnd(ttml, OwnP(ttml, ClosePs(ttml, pos)[1]))
    /\ AllLines(Document_)[1].start = Some(1500)
    /\ AllLines(Document_)[1].end = Some(2000)
    /\ Len(AllLines(Document_)[1].parts) = 2
    /\ AllLines(Document_)[1].parts[1].start = Some(1000)
    /\ AllLines(Document_)[1].parts[2].end = Some(2000)

(***************************************************************************)
(* Paragraphs, termination and failures.                                   *)
(***************************************************************************)
\* the close "div" tokens among the first n that come after an open "body"
CloseDivsInBody(s, n) ==
    Sorted({d \in 1..n : IsClose(s[d], "div") /\ \E b \in Starts(s, "body") : b < d})
\* the close "p" tokens strictly between a and d
ClosePsBetween(s, a, d) == {j \in a + 1 .. d - 1 : IsClose(s[j], "p")}

\* C4 as stated: the paragraphs of a returned document correspond one to
\* one, in order, to the close "div" events processed inside the body, each
\* holding the lines closed since the close "div" before it.
C4_AsStated ==
    Returned =>
        LET ds == CloseDivsInBody(ttml, pos) IN
        /\ Len(Document_) = Len(ds)
        /\ \A k \in 1..Len(ds) :
              Len(Document_[k]) =
                  Cardinality(ClosePsBetween(ttml, IF k = 1 THEN 0 ELSE ds[k - 1], ds[k]))

FirstCloseBody(s) == Min(Closes(s, "body"))

\* C5: no token after the first close "body" is consumed, and the outcome
\* on a stream is the outcome on its prefix up to and including the first
\* close "body", whatever follows it.
C5_EarlyTermination ==
    Closes(ttml, "body") # {} =>
        /\ pos <= FirstCloseBody(ttml)
        /\ pc = "done" =>
              result = Some(ParseTtml(SubSeq(ttml, 1, FirstCloseBody(ttml)), language))

\* the call stopped at a close "body" that is followed by an open "body"
\* or by an attribute the timestamp parser rejects
C5_Witness ==
    /\ Returned
    /\ Closes(ttml, "body") # {}
    /\ pos = FirstCloseBody(ttml)
    /\ Len(AllLines(Document_)) = 1
    /\ \E i \in pos + 1 .. Len(ttml) :
          \/ IsStart(ttml[i], "body")
          \/ IsTimeAttr(ttml[i]) /\ IsNone(parse_lrc_timestamp(ttml[i].value))

\* the token taken last is an error of the tokenizer, or a begin/end
\* attribute at Line or Part scope that the timestamp parser rejects
LastTokenFails ==
    /\ pos >= 1
    /\ \/ ttml[pos].kind = "Error"
       \/ /\ IsTimeAttr(ttml[pos])
          /\ IsNone(parse_lrc_timestamp(ttml[pos].value))
          /\ (is_line_header \/ is_synced_line)

\* C6: a tokenizer error, or a begin/end attribute at Line or Part scope
\* whose value the timestamp parser rejects, ends the call at that token
\* with that error; no document is returned.
C6_ErrorsAbort ==
    LastTokenFails =>
        /\ pc = "done"
        /\ result = Some(Err(IF ttml[pos].kind = "Error" THEN "tokenizer" ELSE "timestamp"))
        /\ Unwrap(result).tag # "Ok"

\* a rejected timestamp ended the call after a paragraph had been completed
C6_Witness ==
    /\ LastTokenFails
    /\ ttml[pos].kind = "Attribute"
    /\ result = Some(Err("timestamp"))
    /\ Len(paragraphs) >= 1
    /\ Len(paragraphs[1]) >= 1

\* the next token is a close "span" with no Part or no Line in progress, or
\* a close "p" with no Line in progress
UnbalancedClose ==
    /\ pc = "loop"
    /\ pos < Len(ttml)
    /\ \/ IsClose(ttml[pos + 1], "span") /\ (IsNone(part) \/ IsNone(line))
       \/ IsClose(ttml[pos + 1], "p") /\ IsNone(line)

\* C7: processing such a close ends the call in a panic: neither a document
\* nor an error value is returned.
C7_UnbalancedClosePanics ==
    [][UnbalancedClose => (pc' = "done" /\ pos' = pos + 1 /\ result' = Some(Panic))]_vars

\* a close "span" inside the body, with a Line but no Part in progress
C7_Witness ==
    /\ pc = "done"
    /\ result = Some(Panic)
    /\ IsClose(ttml[pos], "span")
    /\ is_body
    /\ IsSome(line)
    /\ IsNone(part)

\* C8 as stated: until the first open "body" every event is ignored: flags,
\* Line, Part, buffer and paragraph list stay as they started, and the call
\* neither ends (other than at the end of the stream or on a tokenizer
\* error) nor panics.
C8_AsStated ==
    ~is_body =>
        /\ Locals = NewFrame
        /\ pc = "done" =>
              \/ pos >= 1 /\ ttml[pos].kind = "Error" /\ result = Some(Err("tokenizer"))
              \/ /\ pos = Len(ttml)
                 /\ (pos >= 1 => ~IsClose(ttml[pos], "body"))
                 /\ result = Some(Ok(<<>>, language))

LyricsWanted == config.synced_lyrics \/ config.unsynced_lyrics

\* C9: with a track matched and lyrics wanted, a lyrics call that returns
\* an error does not fail the match: match_track returns Ok with the
\* matched accuracy and track, the track's lyrics absent.  With neither
\* lyrics option set no lyrics call is made.
C9_LyricsErrorTolerated ==
    /\ (mt_pc = "returned" /\ IsSome(lyrics_result) /\ Unwrap(lyrics_result).tag = "Err") =>
          /\ LyricsWanted
          /\ IsSome(matched)
          /\ ret = Some(MtOk(matched))
          /\ Unwrap(Unwrap(ret).value).track.lyrics = None
    /\ ~LyricsWanted => (lyrics_calls = 0 /\ lyrics_result = None)

\* the lyrics call failed on a timestamp inside parse_ttml and the match
\* was returned all the same
C9_Witness ==
    /\ mt_pc = "returned"
    /\ lyrics_result = Some(Err("timestamp"))
    /\ IsSome(matched)
    /\ ret = Some(MtOk(matched))

(***************************************************************************)
(* The scopes of a line: header, part, and what follows a part.            *)
(***************************************************************************)
\* the tokens that open or close a Line, a Part or a paragraph
IsScopeToken(t) ==
    \/ IsStart(t, "p") \/ IsStart(t, "span")
    \/ IsClose(t, "p") \/ IsClose(t, "span") \/ IsClose(t, "div") \/ IsClose(t, "body")

\* the loop is running, the close "span" of a span that holds no such token
\* has been processed, and no token that opens or closes a Line, Part or
\* paragraph has been taken since
AfterPart ==
    /\ pc = "loop"
    /\ \E c \in 1..pos :
          /\ IsClose(ttml[c], "span")
          /\ \E o \in 1 .. c - 1 :
                /\ IsStart(ttml[o], "span")
                /\ \A i \in o + 1 .. c - 1 : ~IsScopeToken(ttml[i])
          /\ \A i \in c + 1 .. pos : ~IsScopeToken(ttml[i])

\* C11 as stated: after a close "span" the extractor is back in the line
\* header: a text event there is the Line's text.
C11_AsStated ==
    AfterPart =>
        /\ is_line_header
        /\ ttml[pos].kind = "Text" => Unwrap(line).text = ttml[pos].text

\* C11 amended: after a close "span" the extractor is in neither the line
\* header nor a part until the next open "p" or open "span": a text event
\* or an attribute taken there leaves the Line and the Part as they are and
\* the call goes on.
C11_NoScopeAfterPart ==
    [][AfterPart =>
         /\ ~is_line_header /\ ~is_synced_line
         /\ (NextToken("Text") \/ NextToken("Attribute")) =>
               (line' = line /\ part' = part /\ pc' = "loop")]_vars

\* a text run was taken after the first span of a line and the Line's text
\* is still empty
C11_Witness ==
    /\ AfterPart
    /\ ttml[pos] = Text("la")
    /\ IsSome(line)
    /\ Unwrap(line).text = ""
    /\ Len(Unwrap(line).parts) = 1

(***************************************************************************)
(* The four logical states, read from the three flags.                     *)
(***************************************************************************)
State ==
    IF ~is_body THEN "Outside"
    ELSE IF is_synced_line THEN "InSyncedPart"
    ELSE IF is_line_header THEN "InLineHeader"
    ELSE "InBody"

LocalsUnchanged ==
    UNCHANGED <<is_body, is_line_header, is_synced_line, paragraphs, paragraph, line, part>>

\* C12 as stated: an open "p" taken in InLineHeader or InSyncedPart, and an
\* open "span" taken in InBody or InSyncedPart, are no-ops: flags, Line,
\* Part, buffer and paragraph list stay as they are.
C12_AsStated ==
    [][(/\ NextToken("ElementStart")
        /\ \/ ttml[pos + 1].local = "p" /\ State \in {"InLineHeader", "InSyncedPart"}
           \/ ttml[pos + 1].local = "span" /\ State \in {"InBody", "InSyncedPart"})
       => LocalsUnchanged]_vars

\* C12 amended: an open "p" starts a new Line in every state inside the
\* body, in place of any Line in progress, and the state becomes
\* InLineHeader; an open "span" starts a new Part in every state inside the
\* body, in place of any Part in progress, and the state becomes
\* InSyncedPart.  Each leaves the rest as it is.  Only in Outside are they
\* no-ops.
C12_OpensActInsideBody ==
    [][NextToken("ElementStart") =>
         /\ (is_body /\ ttml[pos + 1].local = "p") =>
               /\ line' = Some(NewLine)
               /\ State' = "InLineHeader"
               /\ UNCHANGED <<is_body, part, paragraph, paragraphs>>
         /\ (is_body /\ ttml[pos + 1].local = "span") =>
               /\ part' = Some(NewPart)
               /\ State' = "InSyncedPart"
               /\ UNCHANGED <<is_body, line, paragraph, paragraphs>>
         /\ (~is_body /\ ttml[pos + 1].local \in {"p", "span"}) => LocalsUnchanged]_vars

\* an open "p" was taken right after the text of a line in progress, and
\* the Line is empty again
C12_Witness ==
    /\ pc = "loop"
    /\ pos >= 2
    /\ IsStart(ttml[pos], "p")
    /\ ttml[pos - 1] = Text("Plain line text")
    /\ State = "InLineHeader"
    /\ line = Some(NewLine)

\* C13 as stated: a close "div" taken while a Line is in progress
\* (InLineHeader or InSyncedPart) is a no-op: no paragraph is appended, the
\* buffer is not cleared, the state does not change.
C13_AsStated ==
    [][(/\ NextToken("ElementEnd")
        /\ IsClose(ttml[pos + 1], "div")
        /\ State \in {"InLineHeader", "InSyncedPart"})
       => LocalsUnchanged]_vars

\* C13 amended: a close "div" has the same effect in every state inside
\* the body: it appends the buffer to the paragraph list, clears the buffer and clears
\* both flags, and keeps the Line and Part in progress; so with a Line in
\* progress the state becomes InBody, and the text and attributes that
\* follow no longer apply to that Line or Part.
C13_CloseDivActsEverywhere ==
    [][(NextToken("ElementEnd") /\ IsClose(ttml[pos + 1], "div") /\ is_body) =>
         /\ paragraphs' = Append(paragraphs, paragraph)
         /\ paragraph' = <<>>
         /\ ~is_line_header' /\ ~is_synced_line'
         /\ UNCHANGED <<is_body, line, part>>
         /\ pc' = "loop"]_vars

\* a close "div" was taken with a Part in progress: a paragraph was
\* appended and the state is InBody, the Line and Part still there
C13_Witness ==
    /\ pc = "loop"
    /\ pos >= 1
    /\ IsClose(ttml[pos], "div")
    /\ IsSome(line) /\ IsSome(part)
    /\ State = "InBody"
    /\ Len(paragraphs) = 1

(***************************************************************************)
(* Text events.                                                            *)
(***************************************************************************)
\* C14: a text event in InLineHeader makes the Line's text that text run,
\* whatever it was, and one in InSyncedPart the Part's text; nothing else
\* changes; a text event in Outside or InBody changes nothing.  The text a
\* Line has when its "p" closes, if not empty, is the text it goes into the
\* buffer with.
C14_TextOverwrites ==
    [][/\ NextToken("Text") =>
            /\ State = "InLineHeader" =>
                  /\ line' = Some([Unwrap(line) EXCEPT !.text = ttml[pos + 1].text])
                  /\ UNCHANGED <<is_body, is_line_header, is_synced_line, part,
                                 paragraph, paragraphs>>
            /\ State = "InSyncedPart" =>
                  /\ part' = Some([Unwrap(part) EXCEPT !.text = ttml[pos + 1].text])
                  /\ UNCHANGED <<is_body, is_line_header, is_synced_line, line,
                                 paragraph, paragraphs>>
            /\ State \in {"Outside", "InBody"} => LocalsUnchanged
            /\ pc' = "loop"
       /\ (/\ NextToken("ElementEnd") /\ IsClose(ttml[pos + 1], "p")
           /\ IsSome(line) /\ Unwrap(line).text # "") =>
              paragraph' = Append(paragraph, Unwrap(line))]_vars

\* the "p" that closed held two text runs with a comment between them, and
\* its Line went into the buffer with the second one as its text
C14_Witness ==
    /\ pc = "loop"
    /\ pos >= 4
    /\ IsClose(ttml[pos], "p")
    /\ ttml[pos - 1] = Text("la")
    /\ ttml[pos - 2] = Comment
    /\ ttml[pos - 3] = Text("Plain line text")
    /\ Len(paragraph) >= 1
    /\ paragraph[Len(paragraph)].text = "la"

(***************************************************************************)
(* One pass over the tokens.                                               *)
(***************************************************************************)
\* C15: every step of a running call takes the next token of the stream
\* (the position goes up by one, never past the end) or ends the call at
\* the end of the stream; a call that is over has exactly one outcome, a
\* document, an error or a fault; and every call eventually is over.
C15_SinglePassTerminates ==
    /\ [][/\ pc = "loop" =>
               \/ pos < Len(ttml) /\ pos' = pos + 1
               \/ pos = Len(ttml) /\ pos' = pos /\ pc' = "done"
          /\ pc = "done" => (pc' = "loop" /\ pos' = 0)
          /\ ttml' = ttml]_vars
    /\ [](/\ pos <= Len(ttml)
          /\ pc = "done" <=> IsSome(result)
          /\ pc = "done" => Unwrap(result).tag \in {"Ok", "Err", "Panic"}
          /\ (pc = "done" /\ Unwrap(result).tag = "Ok") =>
                \/ pos = Len(ttml)
                \/ pos >= 1 /\ IsClose(ttml[pos], "body"))
    /\ (pc = "loop" ~> pc = "done")

\* a call ran to the end of a whole document and returned, every token
\* taken once
C15_Witness ==
    /\ Returned
    /\ pos = Len(ttml)
    /\ Len(ttml) >= 30
    /\ Closes(ttml, "body") = {}

(***************************************************************************)
(* The flags and what they stand for.                                      *)
(***************************************************************************)
\* C16: after every processed token is_line_header and is_synced_line are
\* never both true, either flag implies is_body, is_line_header implies a
\* Line in progress and is_synced_line a Part in progress; so a fault comes
\* only from the unwraps of the close "p" and close "span" arms.
C16_FlagConsistency ==
    /\ ~(is_line_header /\ is_synced_line)
    /\ (is_line_header \/ is_synced_line) => is_body
    /\ is_line_header => IsSome(line)
    /\ is_synced_line => IsSome(part)
    /\ (pc = "done" /\ result = Some(Panic)) =>
          /\ pos >= 1
          /\ IsClose(ttml[pos], "p") \/ IsClose(ttml[pos], "span")

\* a Part is in progress inside the body with no Line: an open "span" was
\* taken outside every "p"
C16_Witness ==
    /\ pc = "loop"
    /\ is_synced_line
    /\ IsSome(part)
    /\ IsNone(line)
    /\ pos >= 1
    /\ ttml[pos].kind = "Text"

(***************************************************************************)
(* Which lines reach the document.                                         *)
(***************************************************************************)
\* the Line completed by the close "p" at j, as it went into the buffer
CompletedLine(s, j) ==
    LET f == RunFrom(NewFrame, SubSeq(s, 1, j), 1)
    IN  f.paragraph[Len(f.paragraph)]
\* every close "div" among the first n tokens
CloseDivs(s, n) == Sorted({d \in 1..n : IsClose(s[d], "div")})
\* the Lines completed strictly between a and d, in order
LinesClosedBetween(s, a, d) ==
    LET js == Sorted(ClosePsBetween(s, a, d))
    IN  [m \in 1..Len(js) |-> CompletedLine(s, js[m])]

\* C17: the returned document has one paragraph per close "div" processed,
\* holding exactly the Lines completed by the close "p"s since the close
\* "div" before it, in order: a completed Line is in the document if and
\* only if a close "div" was processed after its close "p", and then once,
\* in the paragraph of the first such close "div".  Lines still in the
\* buffer, or in progress, when processing stops are absent.
C17_LinesReachDocumentAtCloseDiv ==
    Returned =>
        LET ds == CloseDivs(ttml, pos) IN
        /\ Len(Document_) = Len(ds)
        /\ \A k \in 1..Len(ds) :
              Document_[k] =
                  LinesClosedBetween(ttml, IF k = 1 THEN 0 ELSE ds[k - 1], ds[k])

\* the stream ended after the second of two lines was completed and before
\* its "div" closed: the document holds the first line only
C17_Witness ==
    /\ Returned
    /\ Len(ClosePs(ttml, pos)) = 2
    /\ Len(paragraph) = 1
    /\ Len(Document_) = 1
    /\ Len(AllLines(Document_)) = 1
    /\ Document_[1][1] = CompletedLine(ttml, ClosePs(ttml, pos)[1])

(***************************************************************************)
(* The cached token and catalog.                                           *)
(***************************************************************************)
\* C18 as stated: in every reachable state of the shared storage, also
\* after a fetch_token call that returned an error, a cached access token
\* is present only if a cached catalog is present.
C18_AsStated == IsSome(access_token) => IsSome(catalog)

(***************************************************************************)
(* The sources a builder hands out.                                        *)
(***************************************************************************)
\* C19: every source returned by get_source has the storage of the
\* builder's instance, with both token and catalog cached, then and ever
\* after; the builder has an instance exactly when a fetch_token call of
\* get_source has succeeded, and fetch_token was called once per instance
\* made and never after that success; a get_source call that finds an
\* instance fetches nothing, one that finds none and has a usable config
\* fetches; a get on a returned source never faults.
C19_OnlyInitialisedSources ==
    /\ [](/\ \A k \in 1..Len(sources) :
                /\ apple_music = Some(sources[k])
                /\ IsSome(storages[sources[k]].access_token)
                /\ IsSome(storages[sources[k]].catalog)
          /\ IsSome(apple_music) <=> sources # <<>>
          /\ IsSome(apple_music) <=>
                \E i \in 1..Len(storages) : IsSome(storages[i].catalog)
          /\ gs_ret \in {Some("Err_config"), Some("Err_fetch"), Some("Panic")} =>
                IsNone(apple_music)
          /\ fetch_calls = Len(storages)
          /\ last_get # Some("Panic"))
    /\ [][/\ IsSome(apple_music) =>
               /\ fetch_calls' = fetch_calls
               /\ apple_music' = apple_music
               /\ gs_calls' # gs_calls => (gs_ret' = Some("Ok") /\ Len(sources') = Len(sources) + 1)
          /\ (IsNone(apple_music) /\ gs_calls' # gs_calls
                /\ gs_ret' \in {Some("Ok"), Some("Err_fetch")}) =>
               fetch_calls' = fetch_calls + 1]_vars

\* fetch_token failed twice, the second time with the token already
\* stored, then succeeded; two sources were returned after that and share
\* the third storage
C19_Witness ==
    /\ Len(storages) = 3
    /\ storages[2] = [access_token |-> Some("eyJh"), catalog |-> None]
    /\ sources = <<3, 3>>
    /\ apple_music = Some(3)
    /\ fetch_calls = 3
    /\ last_get = Some("Ok")

====
